---------------------------- MODULE Spec2Model ----------------------------
(***************************************************************************)
(* read-you: a repository is scanned for source files, a handful of them   *)
(* is ranked and read, a prompt is sent to a generation backend, and the   *)
(* answer (plus a footer) is written to README.md.                         *)
(*                                                                         *)
(* Paths and texts are TLA+ strings; the substring, suffix and base-name   *)
(* tests the code makes on str(file) are computed character by character.  *)
(***************************************************************************)
EXTENDS Integers, Sequences, FiniteSets, TLC

VARIABLES
    directory,      \* str(Path(repo_path)): the repository root as given
    tree,           \* the files under the root, relative paths, in rglob discovery order
    readme,         \* <root>/README.md: whether it exists, and its text
    backend,        \* how the generation backend answers a call during this run
    writes,         \* how many times README.md was opened for writing
    pc,             \* "idle", "constructed", "analyzed", "generated", "saved", "raised", "exited"
    config,         \* <<>> before construction, then <<what the configuration files hold>>
    args,           \* the last operation called and the flags passed so far
    unreadable,     \* relative paths whose open()/read() raises
    scan,           \* locals and result of analyze_directory, or NoScan
    calls,          \* calls made to the generation backend, in order
    response,       \* <<>>, or <<what the backend did with the call>>
    content,        \* <<>>, or <<the text generate_readme returned>>
    printed,        \* what was printed to standard output, in order
    error,          \* the exception raised, "" when none
    exit_code       \* <<>>, or <<main's return value>>

vars == <<directory, tree, readme, backend, writes, pc, config, args, unreadable, scan, calls,
          response, content, printed, error, exit_code>>

-----------------------------------------------------------------------------
(* Bounds of the model *)

\* longest repository listing enumerated in every discovery order (scan runs)
MaxFiles == 3
\* longest listing drawn from the files in build and dependency folders
MaxIgnored == 2
\* longest repository listing of the pipeline runs
MaxRepoFiles == 2
\* largest number of .py / .go files in the listings built by count
MaxPy == 10
MaxGo == 4

-----------------------------------------------------------------------------
(* Strings *)

Max(S) == CHOOSE x \in S : \A y \in S : y <= x

Range(s) == {s[i] : i \in 1..Len(s)}

\* Python: t in s
Contains(s, t) ==
    \E i \in 1..(Len(s) - Len(t) + 1) : SubSeq(s, i, i + Len(t) - 1) = t

\* fnmatch of the pattern '*' + t against s
EndsWith(s, t) ==
    Len(t) <= Len(s) /\ SubSeq(s, Len(s) - Len(t) + 1, Len(s)) = t

\* Path.name: the final path component
Name(p) ==
    LET slashes == {i \in 1..Len(p) : SubSeq(p, i, i) = "/"}
    IN  IF slashes = {} THEN p ELSE SubSeq(p, Max(slashes) + 1, Len(p))

\* directory / rel
JoinPath(dir, rel) == IF dir = "." THEN rel ELSE dir \o "/" \o rel

\* file.relative_to(directory), for a file found under directory
relative_to(file, dir) ==
    IF dir = "." THEN file ELSE SubSeq(file, Len(dir) + 2, Len(file))

-----------------------------------------------------------------------------
(* analyze_directory *)

ignore_dirs ==
    {".git", "node_modules", ".venv", "venv", "__pycache__", "build", "dist", "*.egg-info"}

\* the keys of important_patterns, in insertion order
pattern_keys == <<".py", ".js", ".ts", ".go", ".rs", ".java", ".rb", ".php", ".cs">>

important_patterns ==
    [ext \in Range(pattern_keys) |->
        CASE ext = ".py"   -> <<"main.py", "app.py", "index.py", "setup.py">>
          [] ext = ".js"   -> <<"index.js", "main.js", "app.js", "server.js">>
          [] ext = ".ts"   -> <<"index.ts", "main.ts", "app.ts", "server.ts">>
          [] ext = ".go"   -> <<"main.go", "app.go", "server.go">>
          [] ext = ".rs"   -> <<"main.rs", "lib.rs">>
          [] ext = ".java" -> <<"Main.java", "App.java", "Application.java">>
          [] ext = ".rb"   -> <<"main.rb", "app.rb", "application.rb">>
          [] ext = ".php"  -> <<"index.php", "app.php">>
          [] ext = ".cs"   -> <<"Program.cs", "Startup.cs">>]

\* list(directory.rglob('*' + ext)): full paths, in discovery order
rglob(dir, listing, ext) ==
    LET Matches(rel) == EndsWith(Name(rel), ext)
        found == SelectSeq(listing, Matches)
    IN  [i \in 1..Len(found) |-> JoinPath(dir, found[i])]

\* variant: the ignored names looked for in the file name only (C5 must notice)
IsIgnoredByName(file) == \E ignore_dir \in ignore_dirs : Contains(Name(file), ignore_dir)

\* any(ignore_dir in str(file) for ignore_dir in ignore_dirs)
IsIgnored(file) == \E ignore_dir \in ignore_dirs : Contains(file, ignore_dir)

\* valid_files of one iteration of the first pass
valid_files(dir, listing, ext) ==
    LET Valid(file) == ~IsIgnored(file)
    IN  SelectSeq(rglob(dir, listing, ext), Valid)

\* valid_files of every iteration of the first pass, by extension
collect(dir, listing) ==
    [ext \in Range(pattern_keys) |-> valid_files(dir, listing, ext)]

RECURSIVE FlattenFiles(_, _)
\* all_files: valid_files of every extension, extended in key order
FlattenFiles(valid, keys) ==
    IF keys = <<>> THEN <<>>
    ELSE valid[Head(keys)] \o FlattenFiles(valid, Tail(keys))

\* the first pass: language_counts (its keys in insertion order) and all_files
first_pass(valid) ==
    LET Counted(ext) == valid[ext] # <<>>
    IN  [keys      |-> SelectSeq(pattern_keys, Counted),
         counts    |-> [ext \in {e \in Range(pattern_keys) : Counted(e)} |-> Len(valid[ext])],
         all_files |-> FlattenFiles(valid, pattern_keys)]

\* variant: a strict comparison against the threshold (C3 must notice)
AboveThreshold(count, max_count) == 10 * count > 3 * max_count

\* count >= max_count * 0.3.  The product is an IEEE double: 0.3 is stored
\* slightly below 3/10, so the rounded product never exceeds 3*max_count/10
\* when that is an integer and is within 1e-3 of it otherwise; against an
\* integer count the comparison is that of the exact rationals.
AtLeastThreshold(count, max_count) == 10 * count >= 3 * max_count

\* 'src/' in str(file) or 'lib/' in str(file) or 'app/' in str(file)
InSourceDir(file) ==
    Contains(file, "src/") \/ Contains(file, "lib/") \/ Contains(file, "app/")

InSeq(x, s) == \E i \in 1..Len(s) : s[i] = x

\* variant: every entry point appended (C7 must notice)
PlaceEntryPointLast(acc, file) == Append(acc, file)

\* the entry-point branch: insert(0, file) in a source directory, append otherwise
PlaceEntryPoint(acc, file) ==
    IF InSourceDir(file) THEN <<file>> \o acc ELSE Append(acc, file)

\* ext in str(file)
MentionsExt(file, ext) == Contains(file, ext)

RECURSIVE EntryPointsOf(_, _, _, _)
\* priority 1, inner loop: the files named `pattern`
EntryPointsOf(acc, pattern, ext, files) ==
    IF files = <<>> THEN acc
    ELSE LET file == Head(files)
             acc2 == IF Name(file) = pattern /\ MentionsExt(file, ext)
                     THEN PlaceEntryPoint(acc, file)
                     ELSE acc
         IN  EntryPointsOf(acc2, pattern, ext, Tail(files))

RECURSIVE EntryPoints(_, _, _, _)
\* priority 1, outer loop over important_patterns[ext]
EntryPoints(acc, patterns, ext, files) ==
    IF patterns = <<>> THEN acc
    ELSE EntryPoints(EntryPointsOf(acc, Head(patterns), ext, files),
                     Tail(patterns), ext, files)

RECURSIVE SourceDirFilesAnywhere(_, _, _)
\* variant: priority 2 without the source-directory test (C8 must notice)
SourceDirFilesAnywhere(acc, ext, files) ==
    IF files = <<>> THEN acc
    ELSE LET file == Head(files)
             acc2 == IF MentionsExt(file, ext) /\ ~InSeq(file, acc)
                     THEN Append(acc, file)
                     ELSE acc
         IN  SourceDirFilesAnywhere(acc2, ext, Tail(files))

RECURSIVE SourceDirFiles(_, _, _)
\* priority 2: other files in src/, lib/ or app/
SourceDirFiles(acc, ext, files) ==
    IF files = <<>> THEN acc
    ELSE LET file == Head(files)
             acc2 == IF MentionsExt(file, ext) /\ ~InSeq(file, acc) /\ InSourceDir(file)
                     THEN Append(acc, file)
                     ELSE acc
         IN  SourceDirFiles(acc2, ext, Tail(files))

RECURSIVE RemainingFiles(_, _, _)
\* priority 3: remaining files
RemainingFiles(acc, ext, files) ==
    IF files = <<>> THEN acc
    ELSE LET file == Head(files)
             acc2 == IF MentionsExt(file, ext) /\ ~InSeq(file, acc)
                     THEN Append(acc, file)
                     ELSE acc
         IN  RemainingFiles(acc2, ext, Tail(files))

\* files_by_importance of one primary extension, before the limit
files_by_importance(ext, all_files) ==
    RemainingFiles(
        SourceDirFiles(
            EntryPoints(<<>>, important_patterns[ext], ext, all_files),
            ext, all_files),
        ext, all_files)

\* variant: no limit on the ranked list (C4 must notice)
TopFilesUnlimited(ranked) == ranked

\* files_by_importance[:5]
TopFiles(ranked) == SubSeq(ranked, 1, IF Len(ranked) < 5 THEN Len(ranked) ELSE 5)

\* what reading the file at `file` yields
FileText(file) == "<text of " \o file \o ">"

\* f"# File: {relative_path}\n{content}"
Entry(file, dir) == "# File: " \o relative_to(file, dir) \o "\n" \o FileText(file)

RECURSIVE ReadFiles(_, _, _)
\* the read loop: a file whose read raises is reported and left out
ReadFiles(files, dir, bad) ==
    IF files = <<>> THEN <<>>
    ELSE LET rest == ReadFiles(Tail(files), dir, bad)
         IN  IF relative_to(Head(files), dir) \in bad
             THEN rest
             ELSE <<Entry(Head(files), dir)>> \o rest

NoScan == [done |-> FALSE]

NoSourceError == "ValueError: No recognized source code files found in the repository"

\* if not language_counts
NothingCounted(keys) == keys = <<>>

\* primary_languages: the counted extensions with at least 30% of max_count
primary_languages(first) ==
    LET max_count == Max({first.counts[ext] : ext \in Range(first.keys)})
        IsPrimary(ext) == AtLeastThreshold(first.counts[ext], max_count)
    IN  SelectSeq(first.keys, IsPrimary)

\* the limit and the read loop of the second pass, given the ranked lists
limit_and_read(first, primary, ranked, dir, bad) ==
    LET kept   == [ext \in Range(primary) |-> TopFiles(ranked[ext])]
        filled == {ext \in Range(primary) : kept[ext] # <<>>}
    IN  [done |-> TRUE, raised |-> "",
         language_counts |-> first.counts, all_files |-> first.all_files,
         primary_languages |-> primary, ranked |-> ranked, kept |-> kept,
         reads |-> UNION {Range(kept[ext]) : ext \in filled},
         file_contents |-> [ext \in filled |-> ReadFiles(kept[ext], dir, bad)]]

\* the second pass over the primary languages
second_pass(first, primary, dir, bad) ==
    limit_and_read(first, primary,
                   [ext \in Range(primary) |-> files_by_importance(ext, first.all_files)],
                   dir, bad)

\* variant: an empty result instead of the raise (C6 must notice)
after_first_pass_empty(first, dir, bad) ==
    IF NothingCounted(first.keys)
    THEN [done |-> TRUE, raised |-> "",
          language_counts |-> first.counts, all_files |-> first.all_files,
          primary_languages |-> <<>>, ranked |-> <<>>, kept |-> <<>>,
          reads |-> {}, file_contents |-> <<>>]
    ELSE second_pass(first, primary_languages(first), dir, bad)

\* analyze_directory after its first pass: the raise, or the second pass
after_first_pass(first, dir, bad) ==
    IF NothingCounted(first.keys)
    THEN [done |-> TRUE, raised |-> NoSourceError,
          language_counts |-> first.counts, all_files |-> first.all_files,
          primary_languages |-> <<>>, ranked |-> <<>>, kept |-> <<>>,
          reads |-> {}, file_contents |-> <<>>]
    ELSE second_pass(first, primary_languages(first), dir, bad)

\* analyze_directory(directory): its locals at the raise or the return
analyze_directory(dir, listing, bad) ==
    after_first_pass(first_pass(collect(dir, listing)), dir, bad)

-----------------------------------------------------------------------------
(* ReadmeGenerator(): configuration *)

\* what the configuration directory can hold: example.yaml present or not,
\* secrets.yaml missing / unparsable / parsed, and the merged openai section
ConfigStates ==
    {[example |-> TRUE,  secrets |-> "ok",      api_key |-> "sk-key", model |-> ""],
     [example |-> TRUE,  secrets |-> "ok",      api_key |-> "sk-key", model |-> "gpt-4o"],
     [example |-> FALSE, secrets |-> "ok",      api_key |-> "sk-key", model |-> ""],
     [example |-> TRUE,  secrets |-> "missing", api_key |-> "",       model |-> ""],
     [example |-> TRUE,  secrets |-> "invalid", api_key |-> "",       model |-> ""],
     [example |-> TRUE,  secrets |-> "ok",      api_key |-> "",       model |-> ""],
     [example |-> TRUE,  secrets |-> "ok",
      api_key |-> "YOUR-API-KEY-GOES-IN-SECRETS.YAML", model |-> ""]}

ValidConfig == [example |-> TRUE, secrets |-> "ok", api_key |-> "sk-key", model |-> ""]

\* _read_configs: the exception it raises, "" when it returns
read_configs_error(cfg) ==
    IF ~cfg.example THEN "FileNotFoundError: Configuration not found"
    ELSE IF cfg.secrets = "missing" THEN "ValueError: No secrets.yaml found"
    ELSE IF cfg.secrets = "invalid" THEN "ValueError: Error reading secrets.yaml"
    ELSE ""

\* _init_openai: the exception it raises, "" when it returns
init_openai_error(cfg) ==
    IF cfg.api_key = ""
       \/ cfg.api_key \in {"YOUR-API-KEY-GOES-IN-SECRETS.YAML", "your-actual-api-key-here"}
    THEN "ValueError: Invalid API key. Add your OpenAI key to secrets.yaml"
    ELSE ""

\* __init__: _load_config, then _init_openai
constructor_error(cfg) ==
    IF read_configs_error(cfg) # "" THEN read_configs_error(cfg)
    ELSE init_openai_error(cfg)

\* self.model
configured_model(cfg) == IF cfg.model = "" THEN "gpt-4-0125-preview" ELSE cfg.model

-----------------------------------------------------------------------------
(* generate_readme *)

type_mapping ==
    [ext \in Range(pattern_keys) |->
        CASE ext = ".py"   -> "Python"
          [] ext = ".js"   -> "JavaScript"
          [] ext = ".ts"   -> "TypeScript"
          [] ext = ".go"   -> "Go"
          [] ext = ".rs"   -> "Rust"
          [] ext = ".java" -> "Java"
          [] ext = ".rb"   -> "Ruby"
          [] ext = ".php"  -> "PHP"
          [] ext = ".cs"   -> "C#"]

\* the keys of file_contents, in insertion order
content_keys(result) ==
    LET Filled(ext) == ext \in DOMAIN result.file_contents
    IN  SelectSeq(result.primary_languages, Filled)

\* _detect_project_type: max() keeps the first key with the largest count
detect_project_type(result) ==
    LET keys == content_keys(result)
    IN  IF keys = <<>> THEN "Unknown"
        ELSE LET n(i) == Len(result.file_contents[keys[i]])
                 best == CHOOSE i \in 1..Len(keys) :
                            /\ \A j \in 1..Len(keys) : n(j) <= n(i)
                            /\ \A j \in 1..(i - 1) : n(j) < n(i)
             IN  type_mapping[keys[best]]

footer ==
    "\n\n---\n*This README was automatically generated using [read-you](https://github.com/yourusername/read-you)*"

\* max_tokens=2000 if verbose else 1000
max_tokens(verbose) == IF verbose THEN 2000 ELSE 1000

\* tenths: temperature=0.7
temperature_tenths == 7

\* the keyword arguments of chat.completions.create, and the prompt's parts
backend_call(cfg, result, verbose) ==
    [model        |-> configured_model(cfg),
     temperature  |-> temperature_tenths,
     max_tokens   |-> max_tokens(verbose),
     template     |-> IF verbose THEN "README.md file" ELSE "concise README.md",
     project_type |-> detect_project_type(result),
     files_found  |-> content_keys(result),
     code         |-> [ext \in DOMAIN result.file_contents |-> result.file_contents[ext]]]

\* variant: the backend's text returned as it came (C2 must notice)
returned_content_bare(text) == text

\* response.choices[0].message.content + footer
returned_content(text) == text \o footer

\* the backend raising instead of answering
BackendDown == [ok |-> FALSE, text |-> "APIConnectionError"]

\* what the backend can do with a call: answer with a text, or fail
BackendOutcomes ==
    {[ok |-> TRUE,  text |-> "# Test README\nThis is a test README."],
     [ok |-> TRUE,  text |-> ""],
     BackendDown}

\* generate_readme from the prompt on, given what analyze_directory left
prompt_and_call(cfg, result, verbose, outcome) ==
    IF result.raised # ""
    THEN [error |-> result.raised, scan |-> result, calls |-> <<>>,
          response |-> <<>>, content |-> <<>>]
    ELSE [error    |-> IF outcome.ok THEN "" ELSE outcome.text,
          scan     |-> result,
          calls    |-> <<backend_call(cfg, result, verbose)>>,
          response |-> <<outcome>>,
          content  |-> IF outcome.ok THEN <<returned_content(outcome.text)>> ELSE <<>>]

\* generate_readme(repo_path, verbose): what it leaves behind
generate_readme(cfg, dir, listing, bad, verbose, outcome) ==
    prompt_and_call(cfg, analyze_directory(dir, listing, bad), verbose, outcome)

-----------------------------------------------------------------------------
(* save_readme and main *)

NoReadme == [exists |-> FALSE, text |-> ""]

OldReadme == [exists |-> TRUE, text |-> "# Old README"]

\* the else branch of save_readme: open(readme_path, "w") and write
written_readme(text) == [exists |-> TRUE, text |-> text]

\* variant: the file written in a dry-run too (C10 must notice)
save_readme_always(old, n, out, text, dry_run) ==
    [readme  |-> written_readme(text), writes |-> n + 1,
     printed |-> IF dry_run THEN out \o <<text>> ELSE out]

\* save_readme(repo_path, content, dry_run): README.md and standard output after it
save_readme(old, n, out, text, dry_run) ==
    IF dry_run
    THEN [readme  |-> old, writes |-> n,
          printed |-> out \o <<"\n=== Generated README Content ===\n", text,
                               "\n============================\n">>]
    ELSE [readme |-> written_readme(text), writes |-> n + 1, printed |-> out]

\* def generate_readme(self, repo_path, verbose=False)
generate_readme_parameters == {"repo_path", "verbose"}

\* generator.generate_readme(args.repo_path, model=args.model, verbose=args.verbose)
main_call_keywords == {"model", "verbose"}

TypeErrorText ==
    "TypeError: generate_readme() got an unexpected keyword argument 'model'"

\* the try block of main up to the value of `content`
main_try(cfg, dir, listing, bad, verbose, outcome) ==
    IF constructor_error(cfg) # ""
    THEN [error |-> constructor_error(cfg), scan |-> NoScan, calls |-> <<>>,
          response |-> <<>>, content |-> <<>>]
    ELSE IF ~(main_call_keywords \subseteq generate_readme_parameters)
    THEN [error |-> TypeErrorText, scan |-> NoScan, calls |-> <<>>,
          response |-> <<>>, content |-> <<>>]
    ELSE generate_readme(cfg, dir, listing, bad, verbose, outcome)

\* the rest of main: print or write, and the return value
main_finish(run, old, n, dir, dry_run) ==
    IF run.error # ""
    THEN [readme |-> old, writes |-> n, exit_code |-> 1,
          printed |-> <<"Error: " \o run.error>>]
    ELSE IF dry_run
    THEN [readme |-> old, writes |-> n, exit_code |-> 0,
          printed |-> <<run.content[1]>>]
    ELSE [readme |-> written_readme(run.content[1]), writes |-> n + 1, exit_code |-> 0,
          printed |-> <<"README generated at: " \o JoinPath(dir, "README.md")>>]

-----------------------------------------------------------------------------
(* Repositories *)

\* every listing of at most n distinct files of pool, in every order
Listings(pool, n) ==
    {s \in UNION {[1..k -> pool] : k \in 0..n} :
        \A i, j \in 1..Len(s) : i # j => s[i] # s[j]}

ScanPool ==
    {"src/main.py", "main.py", "src/utils.py", "utils.py", "lib/app.py",
     "x.json.py", "index.js"}

\* files in build and dependency folders, a look-alike folder, and one plain file
IgnoredPool ==
    {".git/hooks/h.py", "node_modules/m.js", "src/__pycache__/c.py", ".venv/lib/v.py",
     "venv/v.py", "build/b.py", "dist/d.js", "my-build-tool/t.py", "x.egg-info/e.py",
     "ok.py"}

ScanRoots == {".", "/srv/app/p", "/w/x.go"}

RepoPool == {"src/main.py", "utils.py", "x.go", "node_modules/m.js", "notes.txt"}

RepoRoots == {"repo"}

\* the i-th .py file and the i-th .go file of a listing built by count
PyFile(i) ==
    IF i <= 8
    THEN <<"src/main.py", "lib/main.py", "app/main.py", "src/app.py",
           "src/index.py", "src/setup.py", "setup.py", "docs/conf.py">>[i]
    ELSE "pkg/m" \o ToString(i) \o ".py"

GoFile(i) == IF i = 1 THEN "cmd/main.go" ELSE "pkg/g" \o ToString(i) \o ".go"

CountListings ==
    {[i \in 1..n |-> PyFile(i)] \o [i \in 1..m |-> GoFile(i)] :
        n \in 0..MaxPy, m \in 0..MaxGo}

\* at most one file of the listing fails to read
BadSets(listing) == {{}} \cup {{listing[i]} : i \in 1..Len(listing)}

NoArgs == [op |-> "", model |-> "", verbose |-> FALSE, dry_run |-> FALSE]

-----------------------------------------------------------------------------
(* Operations *)

\* generator = ReadmeGenerator()
Construct(cfg) ==
    /\ pc = "idle"
    /\ config' = <<cfg>>
    /\ args' = [args EXCEPT !.op = "ReadmeGenerator"]
    /\ error' = constructor_error(cfg)
    /\ pc' = IF constructor_error(cfg) # "" THEN "raised" ELSE "constructed"
    /\ UNCHANGED <<directory, tree, readme, backend, writes, unreadable, scan, calls,
                   response, content, printed, exit_code>>

\* generator.analyze_directory(directory), called on its own
AnalyzeDirectory(bad) ==
    /\ pc = "constructed"
    /\ \E result \in {analyze_directory(directory, tree, bad)} :
           /\ scan' = result
           /\ error' = result.raised
           /\ pc' = IF result.raised # "" THEN "raised" ELSE "analyzed"
    /\ unreadable' = bad
    /\ args' = [args EXCEPT !.op = "analyze_directory"]
    /\ UNCHANGED <<directory, tree, readme, backend, writes, config, calls, response,
                   content, printed, exit_code>>

\* content = generator.generate_readme(repo_path, verbose=verbose)
GenerateReadme(verbose, bad) ==
    /\ pc = "constructed"
    /\ \E run \in {generate_readme(config[1], directory, tree, bad, verbose, backend)} :
           /\ scan' = run.scan
           /\ calls' = calls \o run.calls
           /\ response' = run.response
           /\ content' = run.content
           /\ error' = run.error
           /\ pc' = IF run.error # "" THEN "raised" ELSE "generated"
    /\ unreadable' = bad
    /\ args' = [args EXCEPT !.op = "generate_readme", !.verbose = verbose]
    /\ UNCHANGED <<directory, tree, readme, backend, writes, config, printed, exit_code>>

\* generator.save_readme(repo_path, content, dry_run)
SaveReadme(dry_run) ==
    /\ pc = "generated"
    /\ \E after \in {save_readme(readme, writes, printed, content[1], dry_run)} :
           /\ readme' = after.readme
           /\ writes' = after.writes
           /\ printed' = after.printed
    /\ pc' = "saved"
    /\ args' = [args EXCEPT !.op = "save_readme", !.dry_run = dry_run]
    /\ UNCHANGED <<directory, tree, backend, config, unreadable, scan, calls, response,
                   content, error, exit_code>>

\* main(), with the command line parsed into model, verbose and dry_run
Main(cfg, model, verbose, dry_run, bad) ==
    /\ pc = "idle"
    /\ \E run \in {main_try(cfg, directory, tree, bad, verbose, backend)} :
       \E fin \in {main_finish(run, readme, writes, directory, dry_run)} :
           /\ scan' = run.scan
           /\ calls' = calls \o run.calls
           /\ response' = run.response
           /\ content' = run.content
           /\ error' = run.error
           /\ unreadable' = IF run.scan.done THEN bad ELSE unreadable
           /\ readme' = fin.readme
           /\ writes' = fin.writes
           /\ printed' = printed \o fin.printed
           /\ exit_code' = <<fin.exit_code>>
    /\ config' = <<cfg>>
    /\ args' = [op |-> "main", model |-> model, verbose |-> verbose, dry_run |-> dry_run]
    /\ pc' = "exited"
    /\ UNCHANGED <<directory, tree, backend>>

-----------------------------------------------------------------------------
(* Specifications *)

Fresh ==
    /\ writes = 0
    /\ args = NoArgs
    /\ unreadable = {}
    /\ scan = NoScan
    /\ calls = <<>>
    /\ response = <<>>
    /\ content = <<>>
    /\ printed = <<>>
    /\ error = ""
    /\ exit_code = <<>>

\* a process about to run on a repository: nothing constructed or called yet
Init ==
    /\ directory \in RepoRoots
    /\ tree \in Listings(RepoPool, MaxRepoFiles)
    /\ readme \in {NoReadme, OldReadme}
    /\ backend \in BackendOutcomes
    /\ pc = "idle"
    /\ config = <<>>
    /\ Fresh

Next ==
    \/ \E cfg \in ConfigStates : Construct(cfg)
    \/ \E bad \in BadSets(tree) : AnalyzeDirectory(bad)
    \/ \E verbose \in BOOLEAN, bad \in BadSets(tree) : GenerateReadme(verbose, bad)
    \/ \E dry_run \in BOOLEAN : SaveReadme(dry_run)
    \/ \E cfg \in ConfigStates, model \in {"", "gpt-4o-mini"}, verbose \in BOOLEAN,
          dry_run \in BOOLEAN, bad \in BadSets(tree) :
          Main(cfg, model, verbose, dry_run, bad)

Spec == Init /\ [][Next]_vars

\* a constructed generator about to scan a repository
InitScan ==
    /\ \/ directory \in ScanRoots /\ tree \in Listings(ScanPool, MaxFiles)
       \/ directory \in ScanRoots /\ tree \in Listings(IgnoredPool, MaxIgnored)
       \/ directory = "." /\ tree \in CountListings
    /\ readme = NoReadme
    /\ backend = BackendDown
    /\ pc = "constructed"
    /\ config = <<ValidConfig>>
    /\ Fresh

NextScan == \E bad \in BadSets(tree) : AnalyzeDirectory(bad)

SpecScan == InitScan /\ [][NextScan]_vars

-----------------------------------------------------------------------------
(* Properties *)

\* x occurs in s at an earlier position than y
Before(x, y, s) == \E i, j \in 1..Len(s) : i < j /\ s[i] = x /\ s[j] = y

InSource(file) ==
    Contains(file, "src/") \/ Contains(file, "lib/") \/ Contains(file, "app/")

NonSource(file) == ~InSource(file)

Scanned == scan.done /\ scan.raised = ""

\* the files of the repository, as full paths
RepoFiles == {JoinPath(directory, tree[i]) : i \in 1..Len(tree)}

\* a file the collector must take: a catalog extension, no ignored fragment
Recognized(file) ==
    /\ \E ext \in Range(pattern_keys) : EndsWith(Name(file), ext)
    /\ \A frag \in ignore_dirs : ~Contains(file, frag)

\* C1: main returns 0 when no error occurs and 1 when one is raised; with a
\* valid configuration, a recognized source file in the repository and a
\* backend that answers, it returns 0 and the generated content was printed
\* (dry-run) or written to README.md -- whatever the flags.
C1_MainExitCodes ==
    pc = "exited" =>
        /\ error # "" => exit_code = <<1>>
        /\ error = "" => exit_code = <<0>>
        /\ (/\ constructor_error(config[1]) = ""
            /\ \E file \in RepoFiles : Recognized(file)
            /\ backend.ok)
           => /\ exit_code = <<0>>
              /\ content # <<>>
              /\ IF args.dry_run
                 THEN InSeq(content[1], printed)
                 ELSE readme = [exists |-> TRUE, text |-> content[1]]

C3_PrimaryLanguages ==
    Scanned =>
        LET counts == scan.language_counts
            top    == Max({counts[ext] : ext \in DOMAIN counts})
        IN  /\ Range(scan.primary_languages) \subseteq DOMAIN counts
            /\ \A ext \in DOMAIN counts :
                   InSeq(ext, scan.primary_languages) <=> 10 * counts[ext] >= 3 * top
            /\ \A ext \in DOMAIN counts :
                   counts[ext] = top => InSeq(ext, scan.primary_languages)
            /\ scan.primary_languages # <<>>
            /\ DOMAIN counts = {".py"} => scan.primary_languages = <<".py">>
            /\ (DOMAIN counts = {".py", ".go"} /\ counts[".py"] = 10 /\ counts[".go"] = 4)
                   => scan.primary_languages = <<".py", ".go">>
            /\ (DOMAIN counts = {".py", ".go"} /\ counts[".py"] = 10 /\ counts[".go"] = 2)
                   => scan.primary_languages = <<".py">>

C3_Witness ==
    /\ Scanned
    /\ DOMAIN scan.language_counts = {".py", ".go"}
    /\ scan.language_counts[".py"] = 10
    /\ scan.language_counts[".go"] = 3
    /\ scan.primary_languages = <<".py", ".go">>

\* C4: no extension of the result of analyze_directory holds more than 5 entries.
C4_AtMostFive ==
    scan.done =>
        /\ \A ext \in DOMAIN scan.file_contents : Len(scan.file_contents[ext]) <= 5
        /\ \A ext \in DOMAIN scan.kept : Len(scan.kept[ext]) <= 5

C4_Witness ==
    /\ Scanned
    /\ \E ext \in DOMAIN scan.file_contents :
           /\ Len(scan.ranked[ext]) > 5
           /\ Len(scan.file_contents[ext]) = 5
           /\ \E file \in Range(scan.ranked[ext]) :
                  Name(file) \in Range(important_patterns[ext]) /\ InSource(file)

IgnoredFragments ==
    {".git", "node_modules", "__pycache__", ".venv", "venv", "build", "dist"}

HasIgnoredFragment(file) == \E frag \in IgnoredFragments : Contains(file, frag)

\* C5: a file whose full path contains .git, node_modules, __pycache__, .venv,
\* venv, build or dist is never counted and never in any list of the result.
C5_IgnoredNeverIncluded ==
    scan.done =>
        /\ \A file \in RepoFiles : HasIgnoredFragment(file) =>
              /\ ~InSeq(file, scan.all_files)
              /\ file \notin scan.reads
              /\ \A ext \in DOMAIN scan.kept : ~InSeq(file, scan.kept[ext])
              /\ \A ext \in DOMAIN scan.file_contents :
                     ~InSeq(Entry(file, directory), scan.file_contents[ext])
        /\ \A ext \in DOMAIN scan.language_counts :
              scan.language_counts[ext] =
                  Cardinality({file \in RepoFiles :
                      EndsWith(Name(file), ext) /\ ~HasIgnoredFragment(file)})

C5_Witness ==
    /\ Scanned
    /\ directory = "."
    /\ InSeq("my-build-tool/t.py", tree)
    /\ InSeq("ok.py", tree)
    /\ scan.all_files = <<"ok.py">>
    /\ DOMAIN scan.file_contents = {".py"}

\* C6: with no recognized source file the scan fails with the "No recognized
\* source code files" error, before any ranking, file read, backend call or
\* README write of that run.
C6_NoSourceFails ==
    (scan.done /\ ~\E file \in RepoFiles : Recognized(file)) =>
        /\ pc = "raised"
        /\ error = "ValueError: No recognized source code files found in the repository"
        /\ scan.primary_languages = <<>>
        /\ scan.ranked = <<>>
        /\ scan.reads = {}
        /\ scan.file_contents = <<>>
        /\ calls = <<>>
        /\ content = <<>>
        /\ writes = 0
        /\ readme \in {NoReadme, OldReadme}

C6_Witness ==
    /\ args.op = "generate_readme"
    /\ pc = "raised"
    /\ scan.done
    /\ tree # <<>>
    /\ backend.ok
    /\ error = "ValueError: No recognized source code files found in the repository"

IsSrcMain(file) == Name(file) = "main.py" /\ Contains(file, "src/")

\* C7: in the .py list, a main.py whose path contains src/ comes before every
\* .py file whose path contains none of src/, lib/, app/, and such a file is
\* never kept by the limit of 5 while that main.py is cut off.
C7_SrcMainFirst ==
    (Scanned /\ ".py" \in DOMAIN scan.ranked) =>
        \A m, f \in Range(scan.ranked[".py"]) :
            (IsSrcMain(m) /\ NonSource(f) /\ EndsWith(Name(f), ".py")) =>
                /\ Before(m, f, scan.ranked[".py"])
                /\ InSeq(f, scan.kept[".py"]) => Before(m, f, scan.kept[".py"])
                /\ InSeq(Entry(f, directory), scan.file_contents[".py"]) =>
                      \/ relative_to(m, directory) \in unreadable
                      \/ Before(Entry(m, directory), Entry(f, directory),
                                scan.file_contents[".py"])

C7_Witness ==
    /\ Scanned
    /\ ".py" \in DOMAIN scan.file_contents
    /\ \E m, f \in Range(scan.all_files) :
          /\ IsSrcMain(m) /\ NonSource(f) /\ Name(f) = "main.py"
          /\ Before(f, m, scan.all_files)
          /\ Before(Entry(m, directory), Entry(f, directory), scan.file_contents[".py"])

IsEntryPoint(file, ext) == Name(file) \in Range(important_patterns[ext])

C9_EntriesMatchKey ==
    Scanned =>
        /\ \A ext \in DOMAIN scan.kept :
               \A file \in Range(scan.kept[ext]) : EndsWith(Name(file), ext)
        /\ \A ext \in DOMAIN scan.file_contents :
               \A file \in RepoFiles :
                   InSeq(Entry(file, directory), scan.file_contents[ext])
                       => EndsWith(Name(file), ext)

\* C10: README.md is written only by a run that is no dry-run and in which
\* configuration, scan and the one backend call succeeded; a dry-run or a
\* failed run leaves README.md as it was; the backend is called at most once.
C10_ReadmeWrittenOnlyOnSuccess ==
    /\ Len(calls) <= 1
    /\ writes <= 1
    /\ (writes > 0 \/ readme \notin {NoReadme, OldReadme}) =>
          /\ ~args.dry_run
          /\ constructor_error(config[1]) = ""
          /\ Scanned
          /\ Len(calls) = 1
          /\ response # <<>> /\ response[1].ok
          /\ error = ""
          /\ readme = [exists |-> TRUE, text |-> content[1]]
    /\ (args.dry_run \/ error # "") =>
          /\ writes = 0
          /\ readme \in {NoReadme, OldReadme}

C10_Witness ==
    /\ pc = "saved"
    /\ args.dry_run
    /\ readme = OldReadme
    /\ InSeq(content[1], printed)
    /\ Len(calls) = 1

=============================================================================
